---- MODULE Spec2Model ----
(***************************************************************************)
(* TimetableGenerator (new_timetable_generator.py): the boolean decision   *)
(* variables, the seven constraint families handed to the CP-SAT engine,   *)
(* the engine's answer and its decoding into a timetable.                  *)
(*                                                                         *)
(* The engine is external.  It is modelled by its contract: it answers     *)
(* OPTIMAL/FEASIBLE with a valuation that satisfies every emitted          *)
(* constraint, INFEASIBLE only when no such valuation exists, and UNKNOWN  *)
(* when its time budget runs out.  The valuation is built one (day, slot)  *)
(* cell at a time, so that every satisfying valuation is a reachable state.*)
(***************************************************************************)
EXTENDS Integers, Sequences, FiniteSets, Bags, TLC

VARIABLES
    pc,                       \* position in run()
    labs,                     \* self.labs: sequence of lab names
    subjects,                 \* self.subjects: sequence of subject records (dict order)
    teachers,                 \* self.teachers: sequence of teacher records (dict order)
    subject_teacher_mapping,  \* self.subject_teacher_mapping: subject name -> teacher id
    schedule_vars,            \* self.schedule_vars: the theory and practical variables
    teacher_schedule,         \* self.teacher_schedule: the teacher-busy variables
    aux_vars,                 \* indicator variables created inside add_constraints
    constraints,              \* the constraint families emitted into self.model
    value,                    \* the engine's valuation: the set of variables that are true
    cell,                     \* number of (day, slot) cells the engine has valued
    status,                   \* status returned by self.solver.Solve
    outcome,                  \* what solve_timetable reports to its caller
    timetable,                \* result of extract_solution
    suggestion,               \* what suggest_modifications reports
    model                     \* self.model: every variable and constraint added to it

vars == <<pc, labs, subjects, teachers, subject_teacher_mapping, schedule_vars,
          teacher_schedule, aux_vars, constraints, value, cell, status, outcome,
          timetable, suggestion, model>>

-----------------------------------------------------------------------------
(* The fixed time structure.  The program has 5 days and 7 slots; the model *)
(* keeps the slot order and the break after slot index 2 and bounds the     *)
(* size of the grid.                                                        *)

NumDays == 1
NumSlots == 4
BreakIndex == 2

days == 0 .. (NumDays - 1)
time_slots == 0 .. (NumSlots - 1)
divisions == {0, 1}
batches == <<"P", "Q", "R">>
BatchSet == {batches[i] : i \in 1 .. Len(batches)}

NumCells == NumDays * NumSlots
DayOf(c) == c \div NumSlots
SlotOf(c) == c % NumSlots

Range(seq) == {seq[i] : i \in 1 .. Len(seq)}

-----------------------------------------------------------------------------
(* Problem data.                                                            *)

Subject(n, t, p, l) ==
    [name |-> n, theory_per_week |-> t, practical_per_week |-> p, preferred_labs |-> l]

Teacher(i, subs) == [id |-> i, subjects |-> subs]

SubjectNames == {subjects[i].name : i \in 1 .. Len(subjects)}
TeacherIds == {teachers[i].id : i \in 1 .. Len(teachers)}
SubjectInfo(n) == CHOOSE r \in Range(subjects) : r.name = n
TeacherInfo(t) == CHOOSE r \in Range(teachers) : r.id = t

\* The end-to-end scenario: one lab, one subject with theory and practical, one teacher.
EndToEndModel ==
    [labs |-> <<"L1">>,
     subjects |-> <<Subject("DS", 2, 1, <<"L1">>)>>,
     teachers |-> <<Teacher("T1", {"DS"})>>]

\* The same subject without a practical requirement.
TheoryOnlyModel ==
    [labs |-> <<"L1">>,
     subjects |-> <<Subject("DS", 2, 0, <<>>)>>,
     teachers |-> <<Teacher("T1", {"DS"})>>]

\* Two theory subjects taught by one teacher.
TwoSubjectsModel ==
    [labs |-> <<"L1">>,
     subjects |-> <<Subject("DS", 1, 0, <<>>), Subject("OS", 1, 0, <<>>)>>,
     teachers |-> <<Teacher("T1", {"DS", "OS"})>>]

\* A subject that requires practicals and has no preferred lab.
NoLabsModel ==
    [labs |-> <<"L1">>,
     subjects |-> <<Subject("DS", 1, 1, <<>>)>>,
     teachers |-> <<Teacher("T1", {"DS"})>>]

\* A subject with theory and practical and one lab for each batch.
ThreeLabsModel ==
    [labs |-> <<"L1", "L2", "L3">>,
     subjects |-> <<Subject("DS", 1, 1, <<"L1", "L2", "L3">>)>>,
     teachers |-> <<Teacher("T1", {"DS"})>>]

\* The over-capacity scenario: more theory lectures per week than a division
\* has cells (40 against 5 x 7 in the program).
OverCapacityModel ==
    [labs |-> <<"L1">>,
     subjects |-> <<Subject("DS", NumCells + 1, 2, <<"L1">>)>>,
     teachers |-> <<Teacher("T1", {"DS"})>>]

\* The same load without a practical requirement.
OverCapacityTheoryModel ==
    [labs |-> <<"L1">>,
     subjects |-> <<Subject("DS", NumCells + 1, 0, <<>>)>>,
     teachers |-> <<Teacher("T1", {"DS"})>>]

\* The models handed to the generator: typed in at the prompts of get_user_input
\* (theory and practical both positive, at least one preferred lab) or put into
\* its fields by a caller.
ProblemModels ==
    {EndToEndModel, ThreeLabsModel, TheoryOnlyModel, TwoSubjectsModel, NoLabsModel,
     OverCapacityModel, OverCapacityTheoryModel}

-----------------------------------------------------------------------------
(* Variable keys.  One record shape for every boolean variable of the model.*)

Var(k, d, s, v, n, b, l) ==
    [kind |-> k, day |-> d, slot |-> s, div |-> v, name |-> n, batch |-> b, lab |-> l]

TheoryVar(d, s, v, subj) == Var("theory", d, s, v, subj, "-", "-")
PracticalVar(d, s, v, subj, b, l) == Var("practical", d, s, v, subj, b, l)
TeacherVar(d, s, t) == Var("teacher", d, s, -1, t, "-", "-")
PracticalIndicator(subj, v, d, s) == Var("practical_indicator", d, s, v, subj, "-", "-")
DivIndicator(k, d, s) == Var(k, d, s, -1, "-", "-", "-")
BatchVar(b, d, s, v, subj) == Var("batch_scheduled", d, s, v, subj, b, "-")


-----------------------------------------------------------------------------
(* assign_teachers_to_subjects.  A subject listed by several teachers ends  *)
(* with whichever of them the user keeps (answers 1 or 2 at each prompt); a *)
(* subject listed by none gets the teacher the user picks by number, and    *)
(* is appended to that teacher's list.  Invalid answers re-prompt.          *)

Candidates(tseq, n) == {tseq[i].id : i \in {j \in 1 .. Len(tseq) : n \in tseq[j].subjects}}

NoTeacher == "-"

\* The first loop, for one subject: the teachers are visited in dictionary
\* order; the first whose list holds the subject is taken, and at each later
\* one the user keeps the current teacher ("1") or takes the alternative ("2").
RECURSIVE ChooseAmong(_, _, _, _, _)
ChooseAmong(tseq, subject, choice, j, current) ==
    IF j > Len(tseq) THEN current
    ELSE IF subject \in tseq[j].subjects
            THEN IF current = NoTeacher
                    THEN ChooseAmong(tseq, subject, choice, j + 1, tseq[j].id)
                    ELSE ChooseAmong(tseq, subject, choice, j + 1,
                                     IF choice[<<subject, j>>] = "2"
                                        THEN tseq[j].id ELSE current)
            ELSE ChooseAmong(tseq, subject, choice, j + 1, current)

\* The second loop as it would be if it only warned about the unassigned subjects.
AssignUnassigned_WarnOnly(tseq, mapping, unassigned_subjects, pick) ==
    [mapping |-> mapping, teachers |-> tseq]

\* The second loop: each unassigned subject goes to the teacher the user picks
\* by number and is appended to that teacher's list.
AssignUnassigned(tseq, mapping, unassigned_subjects, pick) ==
    [mapping |-> [n \in DOMAIN mapping \cup unassigned_subjects |->
                     IF n \in unassigned_subjects THEN tseq[pick[n]].id ELSE mapping[n]],
     teachers |-> [i \in 1 .. Len(tseq) |->
                     [id |-> tseq[i].id,
                      subjects |-> tseq[i].subjects \cup
                                   {n \in unassigned_subjects : pick[n] = i}]]]

\* Every outcome of the call, over all answers of the user.
assign_teachers_to_subjects(m) ==
    LET names == {m.subjects[i].name : i \in 1 .. Len(m.subjects)}
        outcomes(choice) ==
            LET first == [n \in names |-> ChooseAmong(m.teachers, n, choice, 1, NoTeacher)]
                unassigned_subjects == {n \in names : first[n] = NoTeacher}
                mapping == [n \in names \ unassigned_subjects |-> first[n]]
            IN  {AssignUnassigned(m.teachers, mapping, unassigned_subjects, pick) :
                    pick \in [unassigned_subjects -> 1 .. Len(m.teachers)]}
    IN  UNION {outcomes(choice) :
                  choice \in [names \X (1 .. Len(m.teachers)) -> {"1", "2"}]}

-----------------------------------------------------------------------------
(* create_decision_variables.  schedule_vars holds one theory variable per  *)
(* (day, slot, division, subject) when theory_per_week > 0, and one          *)
(* practical variable per (batch, preferred lab) when practical_per_week >  *)
(* 0.  The entry of kind "practical_dict" stands for the "practical" key of *)
(* the nested dictionary, which exists even when it holds no variable.      *)

PracticalDict(d, s, v, subj) == Var("practical_dict", d, s, v, subj, "-", "-")

create_schedule_vars(subjs) ==
    UNION {
        (IF subjs[i].theory_per_week > 0
            THEN {TheoryVar(d, s, v, subjs[i].name)} ELSE {})
        \cup
        (IF subjs[i].practical_per_week > 0
            THEN {PracticalDict(d, s, v, subjs[i].name)} \cup
                 {PracticalVar(d, s, v, subjs[i].name, b, l) :
                     b \in BatchSet, l \in Range(subjs[i].preferred_labs)}
            ELSE {})
        : d \in days, s \in time_slots, v \in divisions, i \in 1 .. Len(subjs)}

create_teacher_schedule(tseq) ==
    {TeacherVar(d, s, tseq[i].id) : d \in days, s \in time_slots, i \in 1 .. Len(tseq)}

\* The entries of the index that are boolean variables of the model (NewBoolVar).
BoolVars(index) == {x \in index : x.kind # "practical_dict"}

\* Lookups in the nested dictionary.
HasTheory(d, s, v, subj) == TheoryVar(d, s, v, subj) \in schedule_vars
HasPractical(d, s, v, subj) == PracticalDict(d, s, v, subj) \in schedule_vars
\* schedule_vars[d][s][v][subj]["practical"][b]: the lab variables of a batch.
BatchLabVars(d, s, v, subj, b) ==
    {PracticalVar(d, s, v, subj, b, l) : l \in Range(SubjectInfo(subj).preferred_labs)}
        \cap schedule_vars
PracticalVarsOf(d, s, v, subj) ==
    UNION {BatchLabVars(d, s, v, subj, b) : b \in BatchSet}
TheoryVarsOfDiv(d, s, v) ==
    {TheoryVar(d, s, v, subj) : subj \in SubjectNames} \cap schedule_vars
PracticalVarsOfDiv(d, s, v) ==
    UNION {PracticalVarsOf(d, s, v, subj) : subj \in SubjectNames}
ActivityVars(d, s, v) == TheoryVarsOfDiv(d, s, v) \cup PracticalVarsOfDiv(d, s, v)

\* sum(list) over a valuation: the number of variables of the list that are true.
Sum(list, val) == Cardinality(list \cap val)

\* model.Add(sum(list) >= 1).OnlyEnforceIf(ind) and
\* model.Add(sum(list) == 0).OnlyEnforceIf(ind.Not())
OnlyEnforceIfPair(ind, list, val) ==
    /\ ind \in val => Sum(list, val) >= 1
    /\ ind \notin val => Sum(list, val) = 0

-----------------------------------------------------------------------------
(* add_constraints.  Each family is written for one (day, slot) cell, as   *)
(* the loops of the code emit it; val is the set of true variables.        *)

\* Family 1 as it would be if the sum were taken per subject instead of per division.
Family1At_PerSubject(val, d, s) ==
    \A v \in divisions : \A subj \in SubjectNames :
        LET slot_activities == {x \in ActivityVars(d, s, v) : x.name = subj}
        IN  slot_activities # {} => Sum(slot_activities, val) <= 1

\* Family 1 as it would be if a division could have one activity per batch.
Family1At_OnePerBatch(val, d, s) ==
    \A v \in divisions :
        LET slot_activities == ActivityVars(d, s, v)
        IN  slot_activities # {} => Sum(slot_activities, val) <= Len(batches)

\* 1. Each slot can have at most one activity per division.
Family1At(val, d, s) ==
    \A v \in divisions :
        LET slot_activities == ActivityVars(d, s, v)
        IN  slot_activities # {} => Sum(slot_activities, val) <= 1

\* 2. Minimum lectures per week: the practical indicator of a cell ...
Family2At(val, d, s) ==
    \A subj \in SubjectNames : \A v \in divisions :
        (SubjectInfo(subj).practical_per_week > 0 /\ HasPractical(d, s, v, subj)) =>
            LET practical_vars_in_slot == PracticalVarsOf(d, s, v, subj)
            IN  practical_vars_in_slot # {} =>
                    OnlyEnforceIfPair(PracticalIndicator(subj, v, d, s),
                                      practical_vars_in_slot, val)

\* The weekly sums as they would be without the sum over the theory variables.
Family2Week_NoTheorySum(val) ==
    \A subj \in SubjectNames : \A v \in divisions :
        LET requirements == SubjectInfo(subj)
            practical_lectures ==
                {x \in aux_vars : x.kind = "practical_indicator" /\ x.div = v /\ x.name = subj}
        IN  requirements.practical_per_week > 0 =>
                (practical_lectures # {} =>
                    Sum(practical_lectures, val) >= requirements.practical_per_week)

\* ... and the two weekly sums.
Family2Week(val) ==
    \A subj \in SubjectNames : \A v \in divisions :
        LET requirements == SubjectInfo(subj)
            theory_lectures ==
                {TheoryVar(d, s, v, subj) : d \in days, s \in time_slots} \cap schedule_vars
            practical_lectures ==
                {x \in aux_vars : x.kind = "practical_indicator" /\ x.div = v /\ x.name = subj}
        IN  /\ requirements.theory_per_week > 0 =>
                (theory_lectures # {} =>
                    Sum(theory_lectures, val) >= requirements.theory_per_week)
            /\ requirements.practical_per_week > 0 =>
                (practical_lectures # {} =>
                    Sum(practical_lectures, val) >= requirements.practical_per_week)

\* 3. Mutual exclusion: if one division has practical, the other must have theory.
Family3At(val, d, s) ==
    LET div_a_has_practical == DivIndicator("div_a_has_practical", d, s)
        div_b_has_practical == DivIndicator("div_b_has_practical", d, s)
        div_a_has_theory == DivIndicator("div_a_has_theory", d, s)
        div_b_has_theory == DivIndicator("div_b_has_theory", d, s)
        div_a_practical_vars == PracticalVarsOfDiv(d, s, 0)
        div_b_practical_vars == PracticalVarsOfDiv(d, s, 1)
        div_a_theory_vars == TheoryVarsOfDiv(d, s, 0)
        div_b_theory_vars == TheoryVarsOfDiv(d, s, 1)
    IN  /\ div_a_practical_vars # {} =>
                OnlyEnforceIfPair(div_a_has_practical, div_a_practical_vars, val)
        /\ div_b_practical_vars # {} =>
                OnlyEnforceIfPair(div_b_has_practical, div_b_practical_vars, val)
        /\ div_a_theory_vars # {} =>
                OnlyEnforceIfPair(div_a_has_theory, div_a_theory_vars, val)
        /\ div_b_theory_vars # {} =>
                OnlyEnforceIfPair(div_b_has_theory, div_b_theory_vars, val)
        /\ div_a_has_practical \in val => div_b_has_theory \in val
        /\ div_b_has_practical \in val => div_a_has_theory \in val

\* 4. Lab capacity: each lab can host only one batch at a time.
Family4At(val, d, s) ==
    \A lab \in Range(labs) :
        LET lab_usage == {x \in PracticalVarsOfDiv(d, s, 0) \cup PracticalVarsOfDiv(d, s, 1) :
                             x.lab = lab}
        IN  lab_usage # {} => Sum(lab_usage, val) <= 1

\* Family 5 as it would be if a teacher's variables were those of the subjects
\* mapped to the teacher instead of those of the teacher's own list.
Family5At_MappedOnly(val, d, s) ==
    \A teacher_id \in TeacherIds :
        LET teacher_subjects_vars ==
                {x \in ActivityVars(d, s, 0) \cup ActivityVars(d, s, 1) :
                    subject_teacher_mapping[x.name] = teacher_id}
            busy == IF TeacherVar(d, s, teacher_id) \in val THEN 1 ELSE 0
        IN  teacher_subjects_vars # {} =>
                /\ \A var \in teacher_subjects_vars : var \in val => busy >= 1
                /\ Sum(teacher_subjects_vars, val) <= Cardinality(teacher_subjects_vars) * busy

\* 5. Teacher constraints: the teacher is busy if any of their subjects is scheduled.
Family5At(val, d, s) ==
    \A teacher_id \in TeacherIds :
        LET teacher_subjects_vars ==
                {x \in ActivityVars(d, s, 0) \cup ActivityVars(d, s, 1) :
                    x.name \in TeacherInfo(teacher_id).subjects}
            busy == IF TeacherVar(d, s, teacher_id) \in val THEN 1 ELSE 0
        IN  teacher_subjects_vars # {} =>
                /\ \A var \in teacher_subjects_vars : var \in val => busy >= 1
                /\ Sum(teacher_subjects_vars, val) <= Cardinality(teacher_subjects_vars) * busy

\* Family 6 as it would be with the break taken one slot too early.
Family6At_BreakTooEarly(val, d, slot_idx) ==
    \A teacher_id \in TeacherIds :
        slot_idx # BreakIndex - 1 =>
            ~ (/\ TeacherVar(d, slot_idx, teacher_id) \in val
               /\ TeacherVar(d, slot_idx + 1, teacher_id) \in val)

\* 6. Teacher consecutive lectures: the pair (slot_idx, slot_idx + 1), except across the break.
Family6At(val, d, slot_idx) ==
    \A teacher_id \in TeacherIds :
        slot_idx # BreakIndex =>
            ~ (/\ TeacherVar(d, slot_idx, teacher_id) \in val
               /\ TeacherVar(d, slot_idx + 1, teacher_id) \in val)

\* Family 7 as it would be without the equalities between the batch indicators.
Family7For_NoEquality(val, d, s, v, subj) ==
    HasPractical(d, s, v, subj) =>
        \A b \in {c \in BatchSet : BatchLabVars(d, s, v, subj, c) # {}} :
            OnlyEnforceIfPair(BatchVar(b, d, s, v, subj),
                              BatchLabVars(d, s, v, subj, b), val)

\* 7. For practical sessions, all batches are assigned to labs if any is:
\* the constraints of one (division, subject) ...
Family7For(val, d, s, v, subj) ==
    HasPractical(d, s, v, subj) =>
        LET batch_vars == {i \in 1 .. Len(batches) :
                              BatchLabVars(d, s, v, subj, batches[i]) # {}}
            first == CHOOSE i \in batch_vars : \A j \in batch_vars : i <= j
        IN  /\ \A i \in batch_vars :
                    OnlyEnforceIfPair(BatchVar(batches[i], d, s, v, subj),
                                      BatchLabVars(d, s, v, subj, batches[i]), val)
            /\ Cardinality(batch_vars) > 1 =>
                    \A i \in batch_vars \ {first} :
                        (BatchVar(batches[first], d, s, v, subj) \in val)
                          <=> (BatchVar(batches[i], d, s, v, subj) \in val)

\* ... and of every (division, subject) of the cell.
Family7At(val, d, s) ==
    \A v \in divisions : \A subj \in SubjectNames : Family7For(val, d, s, v, subj)

\* The boolean variables add_constraints creates on the way (NewBoolVar).
create_aux_vars ==
    UNION {
        {DivIndicator(k, d, s) : k \in {"div_a_has_practical", "div_b_has_practical",
                                         "div_a_has_theory", "div_b_has_theory"}}
        \cup
        UNION {
            (IF SubjectInfo(subj).practical_per_week > 0 /\ HasPractical(d, s, v, subj)
                  /\ PracticalVarsOf(d, s, v, subj) # {}
                THEN {PracticalIndicator(subj, v, d, s)} ELSE {})
            \cup
            (IF HasPractical(d, s, v, subj)
                THEN {BatchVar(b, d, s, v, subj) :
                         b \in {c \in BatchSet : BatchLabVars(d, s, v, subj, c) # {}}}
                ELSE {})
            : subj \in SubjectNames, v \in divisions}
        : d \in days, s \in time_slots}

AuxVarsAt(kinds, d, s) == {x \in aux_vars : x.kind \in kinds /\ x.day = d /\ x.slot = s}
TeacherVarsAt(d, s) == {x \in teacher_schedule : x.day = d /\ x.slot = s}
DivIndicatorKinds ==
    {"div_a_has_practical", "div_b_has_practical", "div_a_has_theory", "div_b_has_theory"}

\* A family binds the engine only once add_constraints has emitted it.
Emitted(f, holds) == f \in constraints => holds

\* Every constraint of the model, over a complete valuation.
Satisfies(val) ==
    /\ \A d \in days : \A s \in time_slots :
        /\ Emitted(1, Family1At(val, d, s))
        /\ Emitted(2, Family2At(val, d, s))
        /\ Emitted(3, Family3At(val, d, s))
        /\ Emitted(4, Family4At(val, d, s))
        /\ Emitted(5, Family5At(val, d, s))
        /\ Emitted(7, Family7At(val, d, s))
    /\ \A d \in days : \A slot_idx \in 0 .. (NumSlots - 2) :
        Emitted(6, Family6At(val, d, slot_idx))
    /\ Emitted(2, Family2Week(val))

-----------------------------------------------------------------------------
(* The engine.  It values the variables of one cell after the other; a     *)
(* group of variables is valued as soon as the constraints over it can be  *)
(* evaluated, so a branch that breaks a constraint is cut at once.         *)

\* The constraints that can be evaluated once a group of variables is valued.
StageHolds(stage, z, d, s, p) ==
    CASE stage = "activity" ->
            /\ Emitted(1, Family1At(z, d, s))
            /\ Emitted(4, Family4At(z, d, s))
      [] stage = "batch" -> Emitted(7, Family7For(z, d, s, p[1], p[2]))
      [] stage = "practical_indicator" -> Emitted(2, Family2At(z, d, s))
      [] stage = "division" -> Emitted(3, Family3At(z, d, s))
      [] stage = "teacher" ->
            /\ Emitted(5, Family5At(z, d, s))
            /\ s > 0 => Emitted(6, Family6At(z, d, s - 1))

\* Every way to value the variables V on top of a valuation of X.
Grow(X, V, stage, d, s, p) ==
    UNION {{x \cup y : y \in {w \in SUBSET V : StageHolds(stage, x \cup w, d, s, p)}}
           : x \in X}

\* The activity variables of a cell, grouped by (division, subject, batch).
ActivityGroups(d, s) ==
    LET A == ActivityVars(d, s, 0) \cup ActivityVars(d, s, 1)
    IN  {{x \in A : x.div = y.div /\ x.name = y.name /\ x.batch = y.batch} : y \in A}

NoPair == <<0, "-">>

\* Families 1 and 4 bound sums from above: a valuation that breaks one of them
\* stays broken whatever is valued next, so it is cut group by group.
RECURSIVE GrowActivities(_, _, _, _)
GrowActivities(X, groups, d, s) ==
    IF groups = {} THEN X
    ELSE
        LET g == CHOOSE h \in groups : TRUE
        IN  GrowActivities(Grow(X, g, "activity", d, s, NoPair), groups \ {g}, d, s)

\* The batch indicators of one (division, subject) are valued together: family 7
\* for that pair mentions no other indicator.
RECURSIVE GrowBatches(_, _, _, _)
GrowBatches(X, pairs, d, s) ==
    IF pairs = {} THEN X
    ELSE
        LET p == CHOOSE q \in pairs : TRUE
            V == {x \in AuxVarsAt({"batch_scheduled"}, d, s) : x.div = p[1] /\ x.name = p[2]}
        IN  GrowBatches(Grow(X, V, "batch", d, s, p), pairs \ {p}, d, s)

Extensions(val, d, s) ==
    LET X2 == GrowActivities({val}, ActivityGroups(d, s), d, s)
        X3 == GrowBatches(X2, divisions \X SubjectNames, d, s)
        X4 == Grow(X3, AuxVarsAt({"practical_indicator"}, d, s),
                   "practical_indicator", d, s, NoPair)
        X5 == Grow(X4, AuxVarsAt(DivIndicatorKinds, d, s), "division", d, s, NoPair)
    IN  Grow(X5, TeacherVarsAt(d, s), "teacher", d, s, NoPair)

RECURSIVE Feasible(_, _)
Feasible(val, c) ==
    IF c = NumCells
        THEN Emitted(2, Family2Week(val))
        ELSE \E z \in Extensions(val, DayOf(c), SlotOf(c)) : Feasible(z, c + 1)

\* The report as it would be if solve_timetable returned True for every status.
SolveReport_AlwaysTrue(st) ==
    [ret |-> TRUE, msg |-> "Timetable generated successfully!"]

\* solve_timetable, after Solve: what the caller gets back and what is printed.
SolveReport(st) ==
    IF st \in {"OPTIMAL", "FEASIBLE"}
        THEN [ret |-> TRUE, msg |-> "Timetable generated successfully!"]
        ELSE [ret |-> FALSE,
              msg |-> "Could not generate a valid timetable with given constraints."]

-----------------------------------------------------------------------------
(* extract_solution.  For each cell and division the subjects are visited  *)
(* in dictionary order; a true theory variable, then a true practical      *)
(* variable, each overwrite what the cell holds so far.                    *)

NoBatches == [b \in {} |-> "-"]
Activity(subj, type, teacher, bl) ==
    [subject |-> subj, type |-> type, teacher |-> teacher, batches |-> bl]
Free == Activity("-", "FREE", "-", NoBatches)

LastTrueLab(val, d, s, v, subj, b) ==
    LET pl == SubjectInfo(subj).preferred_labs
        hits == {i \in 1 .. Len(pl) : PracticalVar(d, s, v, subj, b, pl[i]) \in val}
    IN  pl[CHOOSE i \in hits : \A j \in hits : j <= i]

RECURSIVE ExtractCell(_, _, _, _, _, _)
ExtractCell(val, d, s, v, i, acc) ==
    IF i > Len(subjects) THEN acc
    ELSE
        LET subject == subjects[i].name
            theory == IF HasTheory(d, s, v, subject) /\ TheoryVar(d, s, v, subject) \in val
                        THEN Activity(subject, "Theory",
                                      subject_teacher_mapping[subject], NoBatches)
                        ELSE acc
            assigned == {b \in BatchSet :
                            \E x \in BatchLabVars(d, s, v, subject, b) : x \in val}
            practical_info == [b \in assigned |-> LastTrueLab(val, d, s, v, subject, b)]
            practical == IF HasPractical(d, s, v, subject) /\ assigned # {}
                            THEN Activity(subject, "Practical",
                                          subject_teacher_mapping[subject], practical_info)
                            ELSE theory
        IN  ExtractCell(val, d, s, v, i + 1, practical)

\* Extract as it would be if a decoding used up the engine's values: a second
\* decoding finds every variable false.
Extract_Consuming(val) ==
    [kind |-> "timetable",
     cells |-> [k \in days \X time_slots \X divisions |->
                    IF timetable.kind = "timetable" THEN Free
                    ELSE ExtractCell(val, k[1], k[2], k[3], 1, Free)]]

Extract(val) ==
    [kind |-> "timetable",
     cells |-> [k \in days \X time_slots \X divisions |->
                    ExtractCell(val, k[1], k[2], k[3], 1, Free)]]

NoTimetable == [kind |-> "none", cells |-> [k \in {} |-> Free]]

\* The comparison as it would be if a load equal to the capacity counted as overload.
Overloaded_AtCapacity ==
    LET RECURSIVE total(_)
        total(i) == IF i = 0 THEN 0
                    ELSE total(i - 1) + subjects[i].theory_per_week
                                      + subjects[i].practical_per_week
        available_slots == NumDays * NumSlots
    IN  total(Len(subjects)) >= available_slots

\* suggest_modifications: the load-versus-capacity comparison.
Overloaded ==
    LET RECURSIVE total(_)
        total(i) == IF i = 0 THEN 0
                    ELSE total(i - 1) + subjects[i].theory_per_week
                                      + subjects[i].practical_per_week
        available_slots == NumDays * NumSlots
    IN  total(Len(subjects)) > available_slots

-----------------------------------------------------------------------------
(* run(): the pipeline.                                                     *)

NoMapping == [n \in {} |-> "-"]

\* self.model = cp_model.CpModel(): nothing added yet.
EmptyModel == [variables |-> EmptyBag, constraints |-> EmptyBag]

\* self.model after one build over the given variables.
BuiltModel(index, aux) ==
    [variables |-> SetToBag(BoolVars(index) \cup aux), constraints |-> SetToBag(1 .. 7)]

Init ==
    /\ pc = "start"
    /\ labs = <<>>
    /\ subjects = <<>>
    /\ teachers = <<>>
    /\ subject_teacher_mapping = NoMapping
    /\ schedule_vars = {}
    /\ teacher_schedule = {}
    /\ aux_vars = {}
    /\ constraints = {}
    /\ value = {}
    /\ cell = 0
    /\ status = "none"
    /\ outcome = [ret |-> FALSE, msg |-> "none"]
    /\ timetable = NoTimetable
    /\ suggestion = "none"
    /\ model = EmptyModel

\* get_user_input: labs, subjects, teachers, the subject -> teacher assignment,
\* then the confirmation prompt.
get_user_input ==
    /\ pc = "start"
    /\ \E m \in ProblemModels : \E a \in assign_teachers_to_subjects(m) :
          \E confirm \in {"y", "n"} :
            /\ labs' = m.labs
            /\ subjects' = m.subjects
            /\ teachers' = a.teachers
            /\ subject_teacher_mapping' = a.mapping
            /\ pc' = IF confirm = "y" THEN "confirmed" ELSE "exit"
    /\ UNCHANGED <<schedule_vars, teacher_schedule, aux_vars, constraints, value, cell,
                   status, outcome, timetable, suggestion, model>>

create_decision_variables ==
    /\ pc = "confirmed"
    /\ schedule_vars' = create_schedule_vars(subjects)
    /\ teacher_schedule' = create_teacher_schedule(teachers)
    /\ model' = [model EXCEPT !.variables = @ (+) SetToBag(
                      BoolVars(create_schedule_vars(subjects))
                          \cup create_teacher_schedule(teachers))]
    /\ pc' = "variables"
    /\ UNCHANGED <<labs, subjects, teachers, subject_teacher_mapping, aux_vars, constraints,
                   value, cell, status, outcome, timetable, suggestion>>

add_constraints ==
    /\ pc = "variables"
    /\ aux_vars' = create_aux_vars
    /\ constraints' = 1 .. 7
    /\ model' = [variables |-> model.variables (+) SetToBag(create_aux_vars),
                 constraints |-> model.constraints (+) SetToBag(1 .. 7)]
    /\ pc' = "solve"
    /\ UNCHANGED <<labs, subjects, teachers, subject_teacher_mapping, schedule_vars,
                   teacher_schedule, value, cell, status, outcome, timetable, suggestion>>

\* The engine values the next cell.
SolveStep ==
    /\ pc = "solve"
    /\ cell < NumCells
    /\ \E z \in Extensions(value, DayOf(cell), SlotOf(cell)) : value' = z
    /\ cell' = cell + 1
    /\ UNCHANGED <<pc, labs, subjects, teachers, subject_teacher_mapping, schedule_vars,
                   teacher_schedule, aux_vars, constraints, status, outcome, timetable,
                   suggestion, model>>

Solved(st) ==
    /\ status' = st
    /\ outcome' = SolveReport(st)
    /\ pc' = "solved"
    /\ UNCHANGED <<labs, subjects, teachers, subject_teacher_mapping, schedule_vars,
                   teacher_schedule, aux_vars, constraints, timetable, suggestion, model>>

\* Every variable has a value and every constraint holds.
SolveFound ==
    /\ pc = "solve"
    /\ cell = NumCells
    /\ Emitted(2, Family2Week(value))
    /\ \E st \in {"OPTIMAL", "FEASIBLE"} : Solved(st)
    /\ UNCHANGED <<value, cell, model>>

\* No valuation satisfies the constraints.
SolveInfeasible ==
    /\ pc = "solve"
    /\ cell = 0
    /\ ~ Feasible({}, 0)
    /\ Solved("INFEASIBLE")
    /\ UNCHANGED <<value, cell, model>>

\* max_time_in_seconds runs out before the search ends.
SolveTimeout ==
    /\ pc = "solve"
    /\ Solved("UNKNOWN")
    /\ value' = {}
    /\ cell' = 0

extract_solution ==
    /\ pc = "solved"
    /\ outcome.ret
    /\ timetable' = Extract(value)
    /\ pc' = "extracted"
    /\ UNCHANGED <<labs, subjects, teachers, subject_teacher_mapping, schedule_vars,
                   teacher_schedule, aux_vars, constraints, value, cell, status, outcome,
                   suggestion, model>>

\* A caller decodes the same solved valuation once more.
extract_solution_again ==
    /\ pc = "extracted"
    /\ timetable' = Extract(value)
    /\ pc' = "extracted_again"
    /\ UNCHANGED <<labs, subjects, teachers, subject_teacher_mapping, schedule_vars,
                   teacher_schedule, aux_vars, constraints, value, cell, status, outcome,
                   suggestion, model>>

suggest_modifications ==
    /\ pc = "solved"
    /\ ~ outcome.ret
    /\ suggestion' = IF Overloaded THEN "overloaded" ELSE "not_overloaded"
    /\ pc' = "suggested"
    /\ UNCHANGED <<labs, subjects, teachers, subject_teacher_mapping, schedule_vars,
                   teacher_schedule, aux_vars, constraints, value, cell, status, outcome,
                   timetable, model>>

Next ==
    \/ get_user_input
    \/ create_decision_variables
    \/ add_constraints
    \/ SolveStep
    \/ SolveFound
    \/ SolveInfeasible
    \/ SolveTimeout
    \/ extract_solution
    \/ suggest_modifications

Spec == Init /\ [][Next]_vars

-----------------------------------------------------------------------------
(* solve_timetable called again on the same TimetableGenerator, up to       *)
(* MaxBuilds builds in all.  Here the engine runs out of time or proves     *)
(* infeasibility, so that the generator is left without a valuation.        *)

MaxBuilds == 2

\* How often add_constraints has run on self.model.
Builds == CopiesIn(1, model.constraints)

\* A caller calls solve_timetable once more after it has returned.
solve_timetable_again ==
    /\ pc \in {"solved", "suggested"}
    /\ Builds < MaxBuilds
    /\ pc' = "confirmed"
    /\ UNCHANGED <<labs, subjects, teachers, subject_teacher_mapping, schedule_vars,
                   teacher_schedule, aux_vars, constraints, value, cell, status, outcome,
                   timetable, suggestion, model>>

NextRebuild ==
    \/ get_user_input
    \/ create_decision_variables
    \/ add_constraints
    \/ SolveInfeasible
    \/ SolveTimeout
    \/ suggest_modifications
    \/ solve_timetable_again

SpecRebuild == Init /\ [][NextRebuild]_vars

-----------------------------------------------------------------------------
(* Decoding on its own: extract_solution applied to any valuation of the   *)
(* first cell's activity variables, including valuations no correct engine *)
(* would return for the emitted constraints.                               *)

DecodeModel ==
    [labs |-> <<"L1">>,
     subjects |-> <<Subject("DS", 1, 1, <<"L1">>), Subject("OS", 1, 0, <<>>)>>,
     teachers |-> <<Teacher("T1", {"DS"}), Teacher("T2", {"OS"})>>]

InitDecode ==
    /\ pc = "solved"
    /\ labs = DecodeModel.labs
    /\ subjects = DecodeModel.subjects
    /\ teachers = DecodeModel.teachers
    /\ subject_teacher_mapping \in
          {a.mapping : a \in assign_teachers_to_subjects(DecodeModel)}
    /\ schedule_vars = create_schedule_vars(DecodeModel.subjects)
    /\ teacher_schedule = create_teacher_schedule(DecodeModel.teachers)
    /\ aux_vars = create_aux_vars
    /\ constraints = 1 .. 7
    /\ value \in SUBSET {x \in create_schedule_vars(DecodeModel.subjects) :
                            x.kind \in {"theory", "practical"} /\ x.day = 0 /\ x.slot = 0}
    /\ cell = NumCells
    /\ status \in {"OPTIMAL", "FEASIBLE"}
    /\ outcome = SolveReport(status)
    /\ timetable = NoTimetable
    /\ suggestion = "none"
    /\ model = BuiltModel(schedule_vars \cup teacher_schedule, aux_vars)

SpecDecode == InitDecode /\ [][extract_solution]_vars

\* The same, decoded twice.
NextDecodeTwice ==
    \/ extract_solution
    \/ extract_solution_again

SpecDecodeTwice == InitDecode /\ [][NextDecodeTwice]_vars

-----------------------------------------------------------------------------
(* The teacher assignment on its own: assign_teachers_to_subjects for one   *)
(* or two subjects and up to MaxTeachers teachers, each with a non-empty    *)
(* list of the entered subjects, as get_teachers_input leaves them.         *)

MaxTeachers == 3

AssignSubjects ==
    {<<Subject("DS", 1, 1, <<"L1">>)>>,
     <<Subject("DS", 1, 1, <<"L1">>), Subject("OS", 1, 1, <<"L1">>)>>}

TeacherId(i) == <<"T1", "T2", "T3", "T4", "T5">>[i]

AssignTeachers(names) ==
    UNION {{[i \in 1 .. k |-> Teacher(TeacherId(i), lists[i])] :
               lists \in [1 .. k -> (SUBSET names) \ {{}}]}
           : k \in 1 .. MaxTeachers}

InitAssign ==
    /\ pc = "teachers_entered"
    /\ labs = <<"L1">>
    /\ subjects \in AssignSubjects
    /\ teachers \in AssignTeachers({subjects[i].name : i \in 1 .. Len(subjects)})
    /\ subject_teacher_mapping = NoMapping
    /\ schedule_vars = {}
    /\ teacher_schedule = {}
    /\ aux_vars = {}
    /\ constraints = {}
    /\ value = {}
    /\ cell = 0
    /\ status = "none"
    /\ outcome = [ret |-> FALSE, msg |-> "none"]
    /\ timetable = NoTimetable
    /\ suggestion = "none"
    /\ model = EmptyModel

\* The call of assign_teachers_to_subjects inside get_user_input.
assign_teachers ==
    /\ pc = "teachers_entered"
    /\ \E a \in assign_teachers_to_subjects(
                    [labs |-> labs, subjects |-> subjects, teachers |-> teachers]) :
          /\ teachers' = a.teachers
          /\ subject_teacher_mapping' = a.mapping
    /\ pc' = "assigned"
    /\ UNCHANGED <<labs, subjects, schedule_vars, teacher_schedule, aux_vars, constraints,
                   value, cell, status, outcome, timetable, suggestion, model>>

SpecAssign == InitAssign /\ [][assign_teachers]_vars

-----------------------------------------------------------------------------
(* Teachers and the mapping: solve_timetable and what follows it in run(),  *)
(* after get_user_input has returned True, for models in which a subject is *)
(* listed by two teachers or by none.                                       *)

\* Two teachers list the one subject; the user keeps either.
SharedSubjectModel ==
    [labs |-> <<"L1">>,
     subjects |-> <<Subject("DS", 2, 0, <<>>)>>,
     teachers |-> <<Teacher("T1", {"DS"}), Teacher("T2", {"DS"})>>]

\* The same with more theory lectures than cells.
SharedOverCapacityModel ==
    [labs |-> <<"L1">>,
     subjects |-> <<Subject("DS", NumCells + 1, 0, <<>>)>>,
     teachers |-> <<Teacher("T1", {"DS"}), Teacher("T2", {"DS"})>>]

\* No teacher lists OS: it is given to a teacher at the prompt.
UnassignedSubjectModel ==
    [labs |-> <<"L1">>,
     subjects |-> <<Subject("DS", 1, 0, <<>>), Subject("OS", 1, 0, <<>>)>>,
     teachers |-> <<Teacher("T1", {"DS"})>>]

TeacherModels == {SharedSubjectModel, SharedOverCapacityModel, UnassignedSubjectModel}

InitTeachers ==
    /\ pc = "confirmed"
    /\ \E m \in TeacherModels : \E a \in assign_teachers_to_subjects(m) :
          /\ labs = m.labs
          /\ subjects = m.subjects
          /\ teachers = a.teachers
          /\ subject_teacher_mapping = a.mapping
    /\ schedule_vars = {}
    /\ teacher_schedule = {}
    /\ aux_vars = {}
    /\ constraints = {}
    /\ value = {}
    /\ cell = 0
    /\ status = "none"
    /\ outcome = [ret |-> FALSE, msg |-> "none"]
    /\ timetable = NoTimetable
    /\ suggestion = "none"
    /\ model = EmptyModel

\* run() after get_user_input.
NextTeachers ==
    \/ create_decision_variables
    \/ add_constraints
    \/ SolveStep
    \/ SolveFound
    \/ SolveInfeasible
    \/ SolveTimeout
    \/ extract_solution
    \/ suggest_modifications

SpecTeachers == InitTeachers /\ [][NextTeachers]_vars

-----------------------------------------------------------------------------
(* Diagnostics on their own: suggest_modifications after a solve that ran   *)
(* out of time, for one or two subjects with every weekly load up to        *)
(* MaxLoad.                                                                 *)

MaxLoad == 3

LoadedSubject(n, t, p) == Subject(n, t, p, IF p > 0 THEN <<"L1">> ELSE <<>>)

DiagnosticsSubjects ==
    {<<LoadedSubject("DS", t, p)>> : t \in 0 .. MaxLoad, p \in 0 .. MaxLoad}
    \cup
    {<<LoadedSubject("DS", q[1], q[2]), LoadedSubject("OS", q[3], q[4])>> :
        q \in (0 .. MaxLoad) \X (0 .. MaxLoad) \X (0 .. MaxLoad) \X (0 .. MaxLoad)}

InitDiagnostics ==
    /\ pc = "solved"
    /\ labs = <<"L1">>
    /\ subjects \in DiagnosticsSubjects
    /\ teachers = <<Teacher("T1", {subjects[i].name : i \in 1 .. Len(subjects)})>>
    /\ subject_teacher_mapping = [n \in {subjects[i].name : i \in 1 .. Len(subjects)} |-> "T1"]
    /\ schedule_vars = create_schedule_vars(subjects)
    /\ teacher_schedule = create_teacher_schedule(teachers)
    /\ aux_vars = create_aux_vars
    /\ constraints = 1 .. 7
    /\ value = {}
    /\ cell = 0
    /\ status = "UNKNOWN"
    /\ outcome = SolveReport(status)
    /\ timetable = NoTimetable
    /\ suggestion = "none"
    /\ model = BuiltModel(schedule_vars \cup teacher_schedule, aux_vars)

SpecDiagnostics == InitDiagnostics /\ [][suggest_modifications]_vars

-----------------------------------------------------------------------------
(* Properties.                                                              *)

\* The engine answered with a valuation.
Satisfied == status \in {"OPTIMAL", "FEASIBLE"}

IsModel(m) == labs = m.labs /\ subjects = m.subjects

TrueActivities(d, s, v) == ActivityVars(d, s, v) \cap value

\* Cells of the week in which division v has a true theory variable of subj.
TheoryCells(subj, v) ==
    {k \in days \X time_slots : TheoryVar(k[1], k[2], v, subj) \in value}

\* Cells of the week in which division v has a true practical variable of subj.
PracticalCells(subj, v) ==
    {k \in days \X time_slots : PracticalVarsOf(k[1], k[2], v, subj) \cap value # {}}

\* Batches of subj with a true lab variable in the cell.
ScheduledBatches(d, s, v, subj) ==
    {b \in BatchSet : BatchLabVars(d, s, v, subj, b) \cap value # {}}

\* (division, subject) pairs scheduled in the cell whose subject maps to teacher t.
TeacherPairs(d, s, t) ==
    {p \in divisions \X SubjectNames :
        /\ subject_teacher_mapping[p[2]] = t
        /\ \E x \in TrueActivities(d, s, p[1]) : x.name = p[2]}

\* C1: in the end-to-end scenario the emitted constraint set has a satisfying
\* valuation, so the engine never answers INFEASIBLE, and every valuation it
\* returns gives each division two DS theory cells and a DS practical cell with
\* all three batches in L1.
C1_EndToEnd ==
    IsModel(EndToEndModel) =>
        /\ (pc = "solve" /\ cell = 0) => Feasible(value, cell)
        /\ status # "INFEASIBLE"
        /\ Satisfied =>
            \A v \in divisions :
                /\ Cardinality(TheoryCells("DS", v)) >= 2
                /\ \E k \in PracticalCells("DS", v) :
                      /\ \A b \in BatchSet :
                            PracticalVar(k[1], k[2], v, "DS", b, "L1") \in value
                      /\ TheoryVar(k[1], k[2], 1 - v, "DS") \in value

\* C2: in every satisfying valuation each (day, slot, division) has at most one
\* true activity variable, and the extracted timetable shows the cell free
\* exactly when it has none.
C2_SlotExclusivity ==
    Satisfied =>
        \A d \in days : \A s \in time_slots : \A v \in divisions :
            /\ Cardinality(TrueActivities(d, s, v)) <= 1
            /\ pc = "extracted" =>
                  (timetable.cells[<<d, s, v>>] = Free <=> TrueActivities(d, s, v) = {})

C2_Witness ==
    /\ pc = "extracted"
    /\ IsModel(TwoSubjectsModel)
    /\ \E d \in days : \E s \in time_slots :
          /\ TrueActivities(d, s, 0) = {TheoryVar(d, s, 0, "DS")}
          /\ TrueActivities(d, s, 1) = {TheoryVar(d, s, 1, "OS")}
          /\ timetable.cells[<<d, s, 0>>].subject = "DS"

\* C3: in every satisfying valuation every (subject, division) has at least
\* theory_per_week theory cells and at least practical_per_week practical cells.
C3_LoadSatisfaction ==
    Satisfied =>
        \A subj \in SubjectNames : \A v \in divisions :
            /\ Cardinality(TheoryCells(subj, v)) >= SubjectInfo(subj).theory_per_week
            /\ Cardinality(PracticalCells(subj, v)) >= SubjectInfo(subj).practical_per_week

\* C6: in every satisfying valuation, for every (day, slot) and teacher, at
\* most one (division, subject) pair with a true activity variable maps to
\* that teacher.
C6_TeacherNonConflict ==
    Satisfied =>
        \A d \in days : \A s \in time_slots : \A t \in TeacherIds :
            Cardinality(TeacherPairs(d, s, t)) <= 1

\* C7: in every satisfying valuation no teacher has activities in the adjacent
\* slots i and i + 1 of a day, for every i but the one before the break; the
\* timetable extracted from it names no teacher in two such slots either.
C7_TeacherRest ==
    Satisfied =>
        \A t \in TeacherIds : \A d \in days : \A i \in 0 .. (NumSlots - 2) :
            i # BreakIndex =>
                /\ ~ (TeacherPairs(d, i, t) # {} /\ TeacherPairs(d, i + 1, t) # {})
                /\ pc = "extracted" =>
                      ~ (/\ \E v \in divisions : timetable.cells[<<d, i, v>>].teacher = t
                         /\ \E v \in divisions : timetable.cells[<<d, i + 1, v>>].teacher = t)

\* A teacher teaches in both slots around the break.
C7_Witness ==
    /\ pc = "extracted"
    /\ \E t \in TeacherIds : \E d \in days :
          /\ TeacherPairs(d, BreakIndex, t) # {}
          /\ TeacherPairs(d, BreakIndex + 1, t) # {}
          /\ \E i \in 0 .. (BreakIndex - 1) : TeacherPairs(d, i, t) # {}

\* C8: in every satisfying valuation, for every (day, slot, division, subject)
\* with a practical component, all three batches have a true lab variable or
\* none has; a practical activity of the timetable maps all three batches.
C8_BatchAtomicity ==
    Satisfied =>
        \A d \in days : \A s \in time_slots : \A v \in divisions :
            /\ \A subj \in SubjectNames :
                  HasPractical(d, s, v, subj) =>
                      ScheduledBatches(d, s, v, subj) \in {{}, BatchSet}
            /\ (pc = "extracted" /\ timetable.cells[<<d, s, v>>].type = "Practical") =>
                  DOMAIN timetable.cells[<<d, s, v>>].batches = BatchSet

C8_Witness ==
    /\ pc = "extracted"
    /\ \E d \in days : \E s \in time_slots : \E v \in divisions : \E subj \in SubjectNames :
          /\ SubjectInfo(subj).practical_per_week > 0
          /\ HasPractical(d, s, v, subj)
          /\ ScheduledBatches(d, s, v, subj) = {}
          /\ TheoryVar(d, s, v, subj) \in value

\* C9: extract_solution fails with a decoding error when more than one
\* activity variable of a (day, slot, division) is true.
C9_DecodingError ==
    (pc = "extracted" /\ \E d \in days : \E s \in time_slots : \E v \in divisions :
                            Cardinality(TrueActivities(d, s, v)) > 1)
        => timetable.kind = "error"

\* C10: what solve_timetable reports for UNKNOWN differs from what it reports
\* for INFEASIBLE.
C10_TimeoutDistinct ==
    status = "UNKNOWN" => outcome # SolveReport("INFEASIBLE")

\* A subject the specification wants rejected: practicals required and no
\* preferred lab, or no weekly requirement at all.
BadlyConfigured ==
    \E i \in 1 .. Len(subjects) :
        \/ subjects[i].practical_per_week > 0 /\ subjects[i].preferred_labs = <<>>
        \/ subjects[i].theory_per_week = 0 /\ subjects[i].practical_per_week = 0

\* C11: when some subject requires practicals and has no preferred lab, or has
\* no weekly requirement, create_decision_variables fails with a configuration
\* error before it creates a variable: no variable and no constraint is ever
\* built for such a model.
C11_ConfigurationError ==
    BadlyConfigured =>
        /\ pc \in {"confirmed", "exit", "configuration_error"}
        /\ schedule_vars = {}
        /\ teacher_schedule = {}
        /\ constraints = {}

\* The activity variables of the subjects in teacher t's list, both divisions.
TeacherSubjectsVars(d, s, t) ==
    {x \in ActivityVars(d, s, 0) \cup ActivityVars(d, s, 1) :
        x.name \in TeacherInfo(t).subjects}

\* C16: in every satisfying valuation, for every (day, slot, teacher), the
\* teacher-busy variable is true exactly when some theory or practical
\* variable of a subject of the teacher's list is true in that cell.
C16_TeacherBusyTightOr ==
    Satisfied =>
        \A d \in days : \A s \in time_slots : \A t \in TeacherIds :
            TeacherVar(d, s, t) \in value <=> TeacherSubjectsVars(d, s, t) \cap value # {}

\* The variables under the division indicator of kind k in a cell.
UnderlyingVars(k, d, s) ==
    CASE k = "div_a_has_practical" -> PracticalVarsOfDiv(d, s, 0)
      [] k = "div_b_has_practical" -> PracticalVarsOfDiv(d, s, 1)
      [] k = "div_a_has_theory" -> TheoryVarsOfDiv(d, s, 0)
      [] k = "div_b_has_theory" -> TheoryVarsOfDiv(d, s, 1)

\* C17: in every satisfying valuation, for every (day, slot), each of the four
\* division indicators is true exactly when one of its underlying variables
\* is true; an indicator with no underlying variable is false.
C17_IndicatorBinding ==
    Satisfied =>
        \A d \in days : \A s \in time_slots : \A k \in DivIndicatorKinds :
            DivIndicator(k, d, s) \in value <=> UnderlyingVars(k, d, s) \cap value # {}

C13_OverCapacity ==
    (\E i \in 1 .. Len(subjects) : subjects[i].theory_per_week > NumCells) =>
        /\ (pc = "solve" /\ cell = 0) => ~ Feasible(value, cell)
        /\ ~ Satisfied
        /\ status # "none" => ~ outcome.ret

C13_Witness ==
    /\ IsModel(OverCapacityModel)
    /\ pc = "solved"
    /\ status = "INFEASIBLE"
    /\ ~ outcome.ret

\* Lectures per week that all subjects together ask for, per division.
RECURSIVE WeeklyDemand(_)
WeeklyDemand(names) ==
    IF names = {} THEN 0
    ELSE LET n == CHOOSE x \in names : TRUE
         IN  SubjectInfo(n).theory_per_week + SubjectInfo(n).practical_per_week
                + WeeklyDemand(names \ {n})

\* C14: suggest_modifications reports an overloaded schedule exactly when the
\* theory and practical lectures of all subjects together exceed the number
\* of (day, slot) cells of a division, reports none when they are at most
\* that number, and changes none of the problem data.
C14_Diagnostics ==
    /\ [](suggestion # "none" =>
            (suggestion = "overloaded" <=> WeeklyDemand(SubjectNames) > NumDays * NumSlots))
    /\ [][pc' = "suggested" =>
            UNCHANGED <<labs, subjects, teachers, subject_teacher_mapping, schedule_vars,
                        teacher_schedule, value, status>>]_vars

\* The load equals the capacity and no overload is reported.
C14_Witness ==
    /\ pc = "suggested"
    /\ Len(subjects) = 2
    /\ WeeklyDemand(SubjectNames) = NumDays * NumSlots
    /\ suggestion = "not_overloaded"

\* C15: when assign_teachers_to_subjects returns, subject_teacher_mapping has
\* exactly one entry for every subject of self.subjects, each the id of a
\* teacher of self.teachers; it stays so while variables and constraints are
\* built.
C15_TotalMapping ==
    pc \notin {"start", "teachers_entered"} =>
        /\ DOMAIN subject_teacher_mapping = SubjectNames
        /\ \A n \in SubjectNames : subject_teacher_mapping[n] \in TeacherIds

\* Returned with a subject that several teachers list, given to the last of
\* them, and with teachers that list only one of the two subjects.
C15_Witness ==
    /\ pc = "assigned"
    /\ Len(subjects) = 2
    /\ Len(teachers) = MaxTeachers
    /\ Cardinality(Candidates(teachers, "DS")) >= 2
    /\ subject_teacher_mapping["DS"] = teachers[Len(teachers)].id
    /\ subject_teacher_mapping["OS"] = teachers[1].id

\* C18: whatever sequence of solve_timetable calls a generator has seen, the
\* model that is solved holds exactly one boolean variable per key of the
\* current variable index and indicators, one copy of each constraint
\* family, and nothing of an earlier build.
C18_OneShotBuild ==
    /\ \A x \in BagToSet(model.variables) : CopiesIn(x, model.variables) = 1
    /\ \A f \in BagToSet(model.constraints) : CopiesIn(f, model.constraints) = 1
    /\ pc \in {"solve", "solved"} =>
          BagToSet(model.variables) = BoolVars(schedule_vars) \cup teacher_schedule \cup aux_vars

CellVars(d, s, v) ==
    ActivityVars(d, s, v) \cup {x \in AuxVarsAt({"batch_scheduled"}, d, s) : x.div = v}

\* Some subject has practicals to schedule and a lab to schedule them in.
HasLabPractical ==
    \E i \in 1 .. Len(subjects) :
        subjects[i].practical_per_week > 0 /\ subjects[i].preferred_labs # <<>>

\* C20: every valuation of a cell that satisfies families 1 and 7 has all
\* practical variables false, so no valuation the engine builds has a true
\* practical variable; and a model with a subject that has practicals per week
\* and a preferred lab has no satisfying valuation.
C20_PracticalsNeverScheduled ==
    /\ (pc = "solve" /\ cell = 0) =>
          /\ \A d \in days : \A s \in time_slots : \A v \in divisions :
                \A val \in SUBSET CellVars(d, s, v) :
                    (Family1At(val, d, s) /\ Family7At(val, d, s)) =>
                        \A x \in val : x.kind # "practical"
          /\ HasLabPractical => ~ Feasible(value, cell)
    /\ \A x \in value : x.kind # "practical"
    /\ HasLabPractical => ~ Satisfied

\* The engine proved a model with a lab for each batch infeasible.
C20_Witness ==
    /\ IsModel(ThreeLabsModel)
    /\ pc = "solved"
    /\ status = "INFEASIBLE"
    /\ \E x \in schedule_vars : x.kind = "practical"

\* Subject n has a true activity variable in the cell, in some division.
Scheduled(d, s, n) ==
    \E v \in divisions : \E x \in TrueActivities(d, s, v) : x.name = n

\* C21: after assign_teachers_to_subjects the teacher mapped to a subject has
\* the subject in its own list; in every satisfying valuation every teacher
\* whose list holds a subject, mapped to it or not, is marked busy in each
\* cell where the subject is scheduled and is never busy in two adjacent
\* slots other than those around the break; the timetable names only the
\* mapped teacher for the subject.
C21_TeacherListsVsMapping ==
    /\ pc = "confirmed" =>
          \A subjs \in AssignSubjects :
              \A tseq \in AssignTeachers({subjs[i].name : i \in 1 .. Len(subjs)}) :
                  \A a \in assign_teachers_to_subjects(
                              [labs |-> labs, subjects |-> subjs, teachers |-> tseq]) :
                      \A n \in DOMAIN a.mapping : a.mapping[n] \in Candidates(a.teachers, n)
    /\ \A n \in SubjectNames : subject_teacher_mapping[n] \in Candidates(teachers, n)
    /\ Satisfied =>
          \A d \in days : \A s \in time_slots : \A n \in SubjectNames :
              Scheduled(d, s, n) =>
                  \A t \in Candidates(teachers, n) :
                      /\ TeacherVar(d, s, t) \in value
                      /\ \A i \in 0 .. (NumSlots - 2) :
                            i # BreakIndex =>
                                ~ (/\ TeacherVar(d, i, t) \in value
                                   /\ TeacherVar(d, i + 1, t) \in value)
    /\ pc = "extracted" =>
          \A k \in DOMAIN timetable.cells :
              timetable.cells[k].type # "FREE" =>
                  timetable.cells[k].teacher =
                      subject_teacher_mapping[timetable.cells[k].subject]

\* DS is listed by T1 and T2 and mapped to T2; in a cell where DS is scheduled
\* T1 is busy as well and the timetable names T2.
C21_Witness ==
    /\ pc = "extracted"
    /\ IsModel(SharedSubjectModel)
    /\ subject_teacher_mapping["DS"] = "T2"
    /\ \E d \in days : \E s \in time_slots :
          /\ TheoryVar(d, s, 0, "DS") \in value
          /\ TeacherVar(d, s, "T1") \in value
          /\ timetable.cells[<<d, s, 0>>].teacher = "T2"

====
